---------------------------- MODULE Spec2Model ----------------------------
(***************************************************************************)
(* Model of the registry reconciler of resources/install-extensions.py:    *)
(* class Extensions (the in-memory registry sequence `extensions`, the     *)
(* obsolete log `obsolete`, their dirty flags, the two files               *)
(* extensions.json and .obsolete) and install_extensions, the session      *)
(* that loads the files, installs every package of the cache directory     *)
(* and flushes at exit; and of the downloader dlvsix.py: main, the cache    *)
(* of extension packages below workdir, Marketplace.download_extensions    *)
(* with its cache check and marketplace query, the downloads the executor  *)
(* runs in worker threads and the cleanup of old versions in their done    *)
(* callbacks.                                                              *)
(*                                                                         *)
(* Strings the code lower-cases or concatenates (publisher, name, version, *)
(* identifier, obsolete key, location) are sequences of one-character      *)
(* strings, so that str.lower() and the f-string concatenations are        *)
(* computed and key collisions are visible.                                *)
(***************************************************************************)
EXTENDS Integers, Sequences, FiniteSets, TLC

VARIABLES
    extensions_file,   \* content of <extensions_dir>/extensions.json
    obsolete_file,     \* content of <extensions_dir>/.obsolete
    dirs,              \* directories extracted below extensions_dir
    pc,                \* "idle": no session; "session": inside the with block;
                       \* "exit_obsolete": __exit__ wrote .obsolete, not yet extensions.json
    extensions,        \* self.extensions
    obsolete,          \* self.obsolete
    extensions_dirty,  \* self.extensions_dirty
    obsolete_dirty,    \* self.obsolete_dirty
    visited,           \* number of directory entries the session loop has handled
    is_server,         \* Extensions.is_server (code_home name ends with -server)
    current_platform,  \* module global current_platform
    start,             \* history: the two files as the running session found them
    last,              \* history: the last operation and what it did
    other,             \* a second process that runs install_extensions on the
                       \* same code home: its position and its Extensions object
    \* dlvsix.py, the downloader
    cache,             \* files below workdir: "absent", "partial" or "complete"
    version_dirs,      \* directories workdir/extensions/<id>/<version> that exist
    file_log,          \* module global file_log
    futures,           \* what was submitted to app.executor, in submission order
    main,              \* the main thread: its position and its locals
    checked            \* history: the last extension download_extensions handled

\* the variables of the installer and those of the downloader
ivars == <<extensions_file, obsolete_file, dirs, pc, extensions, obsolete,
           extensions_dirty, obsolete_dirty, visited, is_server,
           current_platform, start, last, other>>

dvars == <<cache, version_dirs, file_log, futures, main, checked>>

vars == <<ivars, dvars>>

-----------------------------------------------------------------------------
(* Bounds *)

\* entries the registry sequence may hold
MaxEntries == 3
\* .vsix files one session iterates over
MaxFiles == 2
\* payload entries (extension/...) of a package whose extraction meets I/O
\* failures
MaxPayload == 2
\* entries of a registry file that exists before the first session
MaxLoaded == 2
\* .vsix files the session of the second process iterates over
MaxOther == 1

-----------------------------------------------------------------------------
(* Strings *)

\* str.lower() on one character of the alphabet the model uses
LowerChar(c) ==
    CASE c = "P" -> "p"
      [] c = "B" -> "b"
      [] c = "N" -> "n"
      [] c = "X" -> "x"
      [] OTHER -> c

\* str.lower()
Lower(s) == [i \in 1..Len(s) |-> LowerChar(s[i])]

Dot == <<".">>
Dash == <<"-">>

\* f"{pub}.{name}".lower(): the identifier of a manifest
ManifestId(pub, name) == Lower(pub \o Dot \o name)

\* f"{pub}.{name}-{vers}".lower(): the directory of an installed package
Location(pub, name, vers) == Lower(pub \o Dot \o name \o Dash \o vers)

\* f"{ext['identifier']['id']}-{ext['version']}".lower(): the obsolete key of an entry
ObsoleteKey(ext) == Lower(ext.identifier \o Dash \o ext.version)

-----------------------------------------------------------------------------
(* Packages: the .vsix files a cache directory may hold *)

NoPlatform == "None"
Platforms == {"linux-x64", "darwin-arm64"}

\* zip: "ok"          a zip container with a manifest that has an Identity node
\*      "noidentity"  the manifest has no Metadata/Identity node
\*      "nomanifest"  the container has no extension.vsixmanifest entry
\*      "badzip"      the file is not a zip container
Pkg(z, pub, name, vers, plat, kinds) ==
    [zip |-> z, publisher |-> pub, id |-> name, version |-> vers,
     platform |-> plat, kinds |-> kinds]

Packages ==
    { Pkg("ok", <<"P">>, <<"n">>, <<"1">>, NoPlatform, {"workspace"}),
      Pkg("ok", <<"P">>, <<"n">>, <<"2">>, "linux-x64", {"ui"}),
      Pkg("ok", <<"P">>, <<"n">>, <<"b">>, NoPlatform, {"ui", "workspace"}),
      Pkg("ok", <<"P">>, <<"n">>, <<"B">>, NoPlatform, {"workspace"}),
      Pkg("ok", <<"P">>, <<"n">>, <<"x", "-", "1">>, NoPlatform, {}),
      Pkg("ok", <<"P">>, <<"n", "-", "x">>, <<"1">>, NoPlatform, {"workspace"}),
      Pkg("noidentity", <<>>, <<>>, <<>>, NoPlatform, {}),
      Pkg("nomanifest", <<>>, <<>>, <<>>, NoPlatform, {}),
      Pkg("badzip", <<>>, <<>>, <<>>, NoPlatform, {}) }

NoPkg == Pkg("none", <<>>, <<>>, <<>>, NoPlatform, {})

-----------------------------------------------------------------------------
(* Files *)

Absent == [kind |-> "absent", data |-> <<>>]
Json(d) == [kind |-> "json", data |-> d]

\* a file that exists and that json.loads (or read_text) raises on
Corrupt == [kind |-> "corrupt", data |-> <<>>]

-----------------------------------------------------------------------------
(* class Extensions: the pure part, on the in-memory state                 *)
(*   st = [extensions, obsolete, extensions_dirty, obsolete_dirty, dirs]   *)

\* Extensions.is_obsolete: self.obsolete.get(key, False)
is_obsolete(obs, ext) ==
    LET ext_id == ObsoleteKey(ext)
    IN  IF ext_id \in DOMAIN obs THEN obs[ext_id] ELSE FALSE

\* the entries get_extension's condition accepts, as indexes
Matches(exts, obs, ext_id, version) ==
    { i \in 1..Len(exts) :
        /\ Lower(exts[i].identifier) = ext_id
        /\ (~is_obsolete(obs, exts[i]) \/ exts[i].version = version) }

Min(S) == CHOOSE x \in S : \A y \in S : x <= y
Max(S) == CHOOSE x \in S : \A y \in S : x >= y

\* get_extension as it would be with the loop keeping the last match
get_extension_last(exts, obs, ext_id, version) ==
    LET m == Matches(exts, obs, ext_id, version)
    IN  IF m = {} THEN 0 ELSE Max(m)

\* get_extension as it would be without the version clause: every obsolete
\* entry is skipped
get_extension_active(exts, obs, ext_id, version) ==
    LET m == { i \in 1..Len(exts) :
                 Lower(exts[i].identifier) = ext_id /\ ~is_obsolete(obs, exts[i]) }
    IN  IF m = {} THEN 0 ELSE Min(m)

\* Extensions.get_extension: the loop returns at the first entry that
\* matches; 0 stands for None, otherwise the index of the entry returned
get_extension(exts, obs, ext_id, version) ==
    LET m == Matches(exts, obs, ext_id, version)
    IN  IF m = {} THEN 0 ELSE Min(m)

\* Extensions.extract_vsix: creates the destination directory
extract_vsix(st, location) ==
    [st EXCEPT !.dirs = @ \cup {location}]

\* the dict the code appends; installedTimestamp, the absolute location and
\* the metadata flags that are constant false are left out
Entry(publisher, name, version, location) ==
    [identifier |-> Lower(publisher \o Dot \o name),
     version |-> version,
     relativeLocation |-> location,
     pinned |-> TRUE,
     source |-> "vsix"]

\* add_extension as it would be if it put the new entry first
add_extension_first(st, publisher, name, version, location) ==
    [st EXCEPT !.extensions = <<Entry(publisher, name, version, location)>> \o @,
               !.extensions_dirty = TRUE]

\* Extensions.add_extension
add_extension(st, publisher, name, version, location) ==
    [st EXCEPT !.extensions = Append(@, Entry(publisher, name, version, location)),
               !.extensions_dirty = TRUE]

\* add_obsolete as it would be if it set the flag only
add_obsolete_unmarked(st, ext) ==
    [st EXCEPT !.obsolete_dirty = TRUE]

\* add_obsolete as it would be with the key not lower-cased
add_obsolete_cased(st, ext) ==
    LET ext_id == ext.identifier \o Dash \o ext.version
    IN  [st EXCEPT !.obsolete = [k \in DOMAIN @ \cup {ext_id} |->
                                    IF k = ext_id THEN TRUE ELSE @[k]],
                   !.obsolete_dirty = TRUE]

\* add_obsolete as it would be if it left the dirty flag alone
add_obsolete_clean(st, ext) ==
    LET ext_id == ObsoleteKey(ext)
    IN  [st EXCEPT !.obsolete = [k \in DOMAIN @ \cup {ext_id} |->
                                    IF k = ext_id THEN TRUE ELSE @[k]]]

\* Extensions.add_obsolete
add_obsolete(st, ext) ==
    LET ext_id == ObsoleteKey(ext)
    IN  [st EXCEPT !.obsolete = [k \in DOMAIN @ \cup {ext_id} |->
                                    IF k = ext_id THEN TRUE ELSE @[k]],
                   !.obsolete_dirty = TRUE]

\* the index get_extension returns for a manifest in a state
Installed(st, mft) ==
    get_extension(st.extensions, st.obsolete,
                  ManifestId(mft.publisher, mft.id), mft.version)

\* install_extension as it would end without the platform filter
Outcome_noplatform(st, vsix, server, plat) ==
    IF vsix.zip \in {"badzip", "nomanifest"} THEN "raise"
    ELSE IF vsix.zip = "noidentity" THEN "invalid"
    ELSE IF server /\ "workspace" \notin vsix.kinds THEN "kind"
    ELSE LET installed == Installed(st, vsix)
         IN  IF installed # 0 /\ st.extensions[installed].version = vsix.version
             THEN "already"
             ELSE "commit"

\* install_extension as it would end if the kind filter did not depend on
\* the server mode
Outcome_kindalways(st, vsix, server, plat) ==
    IF vsix.zip \in {"badzip", "nomanifest"} THEN "raise"
    ELSE IF vsix.zip = "noidentity" THEN "invalid"
    ELSE IF "workspace" \notin vsix.kinds THEN "kind"
    ELSE IF ~(vsix.platform = NoPlatform \/ vsix.platform = plat) THEN "platform"
    ELSE LET installed == Installed(st, vsix)
         IN  IF installed # 0 /\ st.extensions[installed].version = vsix.version
             THEN "already"
             ELSE "commit"

\* how install_extension ends for a package:
\*   "raise"     zipfile.ZipFile or z.open raises (BadZipFile, KeyError)
\*   "invalid"   from_etree returned None
\*   "kind"      server mode and "workspace" not in mft.kinds
\*   "platform"  mft.platform is set and is not current_platform
\*   "already"   get_extension found an entry of the same version
\*   "commit"    the package is extracted and appended
Outcome(st, vsix, server, plat) ==
    IF vsix.zip \in {"badzip", "nomanifest"} THEN "raise"
    ELSE IF vsix.zip = "noidentity" THEN "invalid"
    ELSE IF server /\ "workspace" \notin vsix.kinds THEN "kind"
    ELSE IF ~(vsix.platform = NoPlatform \/ vsix.platform = plat) THEN "platform"
    ELSE LET installed == Installed(st, vsix)
         IN  IF installed # 0 /\ st.extensions[installed].version = vsix.version
             THEN "already"
             ELSE "commit"

\* Extensions.install_extension: the state it leaves
install_extension(st, vsix, server, plat) ==
    IF Outcome(st, vsix, server, plat) # "commit" THEN st
    ELSE LET pub == vsix.publisher
             name == vsix.id
             vers == vsix.version
             location == Location(pub, name, vers)
             installed == Installed(st, vsix)
             s1 == extract_vsix(st, location)
             s2 == add_extension(s1, pub, name, vers, location)
         IN  IF installed # 0
             THEN add_obsolete(s2, st.extensions[installed])
             ELSE s2

\* the in-memory state of the running session
Mem ==
    [extensions |-> extensions, obsolete |-> obsolete,
     extensions_dirty |-> extensions_dirty, obsolete_dirty |-> obsolete_dirty,
     dirs |-> dirs]

-----------------------------------------------------------------------------
(* History *)

\* the in-memory state no session has
NoMem ==
    [extensions |-> <<>>, obsolete |-> <<>>, extensions_dirty |-> FALSE,
     obsolete_dirty |-> FALSE, dirs |-> {}]

\* op: the operation; vsix, outcome: the package an install handled and how
\* it ended; installed: what get_extension returned to it; before: the
\* in-memory state it started from; wrote: the files it wrote; io: how the
\* copy of each payload entry went, if any failed; extracted: the payload
\* entries extract_vsix then wrote; files: the files extract_vsix wrote, if
\* the names of the entries are given
Did(op, vsix, outcome, installed, before) ==
    [op |-> op, vsix |-> vsix, outcome |-> outcome, installed |-> installed,
     before |-> before, wrote |-> {}, io |-> <<>>, extracted |-> {},
     files |-> {}]

NoOp == Did("none", NoPkg, "", 0, NoMem)

\* no second process
NoOther ==
    [pc |-> "idle", extensions |-> <<>>, obsolete |-> <<>>,
     extensions_dirty |-> FALSE, obsolete_dirty |-> FALSE, visited |-> 0]

-----------------------------------------------------------------------------
(* The session: install_extensions *)

\* a reader that takes any content for json
Readable_any(f) == TRUE

\* json.loads(read_text()) under suppress(FileNotFoundError) does not raise
Readable(f) == f.kind \in {"absent", "json"}

\* Extensions.__enter__: load both files, absent files read as empty
Enter ==
    /\ pc = "idle"
    /\ Readable(obsolete_file)
    /\ Readable(extensions_file)
    /\ obsolete' = obsolete_file.data
    /\ extensions' = extensions_file.data
    /\ obsolete_dirty' = FALSE
    /\ extensions_dirty' = FALSE
    /\ visited' = 0
    /\ pc' = "session"
    /\ start' = [extensions_file |-> extensions_file, obsolete_file |-> obsolete_file]
    /\ last' = Did("enter", NoPkg, "", 0, NoMem)
    /\ UNCHANGED <<extensions_file, obsolete_file, dirs, is_server, current_platform,
                   other>>

\* Extensions.__enter__ raises on a file it cannot parse: the with block is
\* not entered and __exit__ is not called
EnterRaises ==
    /\ pc = "idle"
    /\ ~(Readable(obsolete_file) /\ Readable(extensions_file))
    /\ start' = [extensions_file |-> extensions_file, obsolete_file |-> obsolete_file]
    /\ last' = Did("enter", NoPkg, "raise", 0, NoMem)
    /\ UNCHANGED <<extensions_file, obsolete_file, dirs, pc, extensions, obsolete,
                   extensions_dirty, obsolete_dirty, visited, is_server,
                   current_platform, other>>

\* the files Extensions.__exit__ writes: the conditions of its two ifs
Wrote ==
    (IF obsolete_dirty THEN {"obsolete"} ELSE {})
        \cup (IF extensions_dirty THEN {"extensions"} ELSE {})

\* Extensions.__exit__, first write
WriteObsolete ==
    IF obsolete_dirty THEN Json(obsolete) ELSE obsolete_file

\* Extensions.__exit__, second write
WriteExtensions ==
    IF extensions_dirty THEN Json(extensions) ELSE extensions_file

\* one iteration of the loop of install_extensions on a package that does
\* not raise
Install(vsix) ==
    /\ pc = "session"
    /\ visited < MaxFiles
    /\ Outcome(Mem, vsix, is_server, current_platform) # "raise"
    /\ LET st == install_extension(Mem, vsix, is_server, current_platform)
       IN  /\ Len(st.extensions) <= MaxEntries
           /\ extensions' = st.extensions
           /\ obsolete' = st.obsolete
           /\ extensions_dirty' = st.extensions_dirty
           /\ obsolete_dirty' = st.obsolete_dirty
           /\ dirs' = st.dirs
    /\ visited' = visited + 1
    /\ last' = Did("install", vsix, Outcome(Mem, vsix, is_server, current_platform),
                   IF Outcome(Mem, vsix, is_server, current_platform) \in {"already", "commit"}
                   THEN Installed(Mem, vsix) ELSE 0,
                   Mem)
    /\ UNCHANGED <<extensions_file, obsolete_file, pc, is_server, current_platform,
                   other, start>>

\* one iteration on a package for which install_extension raises: the
\* exception leaves the with block, __exit__ flushes, the run ends
InstallRaises(vsix) ==
    /\ pc = "session"
    /\ visited < MaxFiles
    /\ Outcome(Mem, vsix, is_server, current_platform) = "raise"
    /\ obsolete_file' = WriteObsolete
    /\ extensions_file' = WriteExtensions
    /\ pc' = "idle"
    /\ last' = [Did("install", vsix, "raise", 0, Mem) EXCEPT !.wrote = Wrote]
    /\ UNCHANGED <<dirs, extensions, obsolete, extensions_dirty, obsolete_dirty,
                   visited, is_server, current_platform, other, start>>

\* what the body of the loop of extract_vsix may do with a payload entry:
\*   "ok"       the entry is copied
\*   "copy"     z.open, target.open or copyfileobj raises OSError, inside the try
\*   "mkdir"    target.parent.mkdir raises OSError, before the try
IO == UNION { [1..n -> {"ok", "copy", "mkdir"}] : n \in 1..MaxPayload }

\* the loop of extract_vsix is left by an exception
Aborts(io) == \E e \in DOMAIN io : io[e] = "mkdir"

\* the payload entries the loop of extract_vsix has copied when it ends
Extracted(io) ==
    { e \in DOMAIN io : io[e] = "ok" /\ \A k \in 1..e : io[k] # "mkdir" }

\* one iteration of the loop of install_extensions on a package that
\* install_extension extracts while some payload entries meet I/O failures:
\* if extract_vsix returns, the entry is committed; if it raises, the
\* exception leaves install_extension before add_extension and then the with
\* block, and __exit__ flushes
InstallIO(vsix, io) ==
    /\ pc = "session"
    /\ visited < MaxFiles
    /\ Outcome(Mem, vsix, is_server, current_platform) = "commit"
    /\ \E e \in DOMAIN io : io[e] # "ok"
    /\ IF Aborts(io)
       THEN /\ dirs' = extract_vsix(Mem, Location(vsix.publisher, vsix.id, vsix.version)).dirs
            /\ obsolete_file' = WriteObsolete
            /\ extensions_file' = WriteExtensions
            /\ pc' = "idle"
            /\ last' = [Did("install", vsix, "extract", Installed(Mem, vsix), Mem)
                           EXCEPT !.wrote = Wrote, !.io = io,
                                  !.extracted = Extracted(io)]
            /\ UNCHANGED <<extensions, obsolete, extensions_dirty, obsolete_dirty,
                           visited>>
       ELSE LET st == install_extension(Mem, vsix, is_server, current_platform)
            IN  /\ Len(st.extensions) <= MaxEntries
                /\ extensions' = st.extensions
                /\ obsolete' = st.obsolete
                /\ extensions_dirty' = st.extensions_dirty
                /\ obsolete_dirty' = st.obsolete_dirty
                /\ dirs' = st.dirs
                /\ visited' = visited + 1
                /\ last' = [Did("install", vsix, "commit", Installed(Mem, vsix), Mem)
                               EXCEPT !.io = io, !.extracted = Extracted(io)]
                /\ UNCHANGED <<extensions_file, obsolete_file, pc>>
    /\ UNCHANGED <<is_server, current_platform, other, start>>

\* the loop is over (iterdir is exhausted): Extensions.__exit__
Exit ==
    /\ pc = "session"
    /\ obsolete_file' = WriteObsolete
    /\ extensions_file' = WriteExtensions
    /\ pc' = "idle"
    /\ last' = [Did("exit", NoPkg, "", 0, NoMem) EXCEPT !.wrote = Wrote]
    /\ UNCHANGED <<dirs, extensions, obsolete, extensions_dirty, obsolete_dirty,
                   visited, is_server, current_platform, other, start>>

-----------------------------------------------------------------------------
(* dlvsix.py, the downloader: the cache below workdir, the marketplace      *)
(* answers and the pure functions of class Marketplace                      *)

\* runs of main on the same workdir
MaxRuns == 2

\* TARGET_PLATFORMS, two of them
TargetPlatforms == {"linux-x64", "win32-x64"}

\* the variants of an extension version: platform-independent or for a platform
Universal == "universal"
Variants == {Universal} \cup TargetPlatforms

\* the order in which a directory listing returns variants and versions:
\* the order of the file system, the same for every listing
VariantOrder == <<Universal, "linux-x64", "win32-x64">>
VersionOrder == <<"1", "2">>

\* the extensions the product has installed, in the order load_extensions
\* returns them (sorted by id), and the versions one of them may have
ExtIds == <<"a", "b">>
Versions == {"1", "2"}
Other(vers) == IF vers = "1" THEN "2" ELSE "1"

\* workdir/extensions/<id>/<version>/<id>-<version>[@<platform>].vsix
ExtFile(id, vers, platform) == [id |-> id, version |-> vers, platform |-> platform]

\* workdir/dist/<commit>/<server archive of the server platform>
DistFile == [id |-> "dist", version |-> "commit", platform |-> "server"]

ExtFiles == { ExtFile(ExtIds[i], v, p) : i \in DOMAIN ExtIds, v \in Versions, p \in Variants }
CacheFiles == ExtFiles \cup {DistFile}

\* Path.exists: a file the transfer has not completed exists too
Exists(c, f) == c[f] # "absent"

\* the orders in which the iteration of a set may visit its elements
Orders(S) ==
    { s \in [1..Cardinality(S) -> S] : \A i, j \in DOMAIN s : i # j => s[i] # s[j] }

\* Marketplace.is_extension_cached as it would be if one platform file was
\* enough
is_extension_cached_any(c, id, vers, order) ==
    LET present == { i \in DOMAIN order : Exists(c, ExtFile(id, vers, order[i])) }
    IN  IF Exists(c, ExtFile(id, vers, Universal))
        THEN [hit |-> TRUE, log |-> {ExtFile(id, vers, Universal)}]
        ELSE [hit |-> present # {},
              log |-> { ExtFile(id, vers, order[i]) : i \in present }]

\* Marketplace.is_extension_cached, the set platforms iterated in `order`:
\* whether the version is cached, and the files the call adds to file_log
is_extension_cached(c, id, vers, order) ==
    LET missing == { i \in DOMAIN order : ~Exists(c, ExtFile(id, vers, order[i])) }
        upto == IF missing = {} THEN Len(order)
                ELSE (CHOOSE i \in missing : \A j \in missing : i <= j) - 1
    IN  IF Exists(c, ExtFile(id, vers, Universal))
        THEN [hit |-> TRUE, log |-> {ExtFile(id, vers, Universal)}]
        ELSE [hit |-> missing = {},
              log |-> { ExtFile(id, vers, order[i]) : i \in 1..upto }]

\* what _fetch_extension_data ends with: urlopen raises ("error"), the
\* marketplace has no record of the extension ("none"), or the record
\* ("data"), whose versions each carry a version and a targetPlatform
\* (absent: "None"); a record lists any variants of the version asked for
\* and the platform-independent package of the other version
NoTarget == "None"
Row(vers, platform) ==
    [version |-> vers, targetPlatform |-> IF platform = Universal THEN NoTarget ELSE platform]
Response(kind, versions) == [kind |-> kind, versions |-> versions]
Responses(vers) ==
    {Response("error", {}), Response("none", {})}
        \cup { Response("data", { Row(vers, p) : p \in S } \cup {Row(Other(vers), Universal)}) :
                  S \in SUBSET Variants }

\* the platforms the record offers for a version: the keys of `sources`
\* after the loop of get_download_extension_urls
Sources(data, vers) ==
    { IF row.targetPlatform = NoTarget THEN Universal ELSE row.targetPlatform :
        row \in { r \in data.versions : r.version = vers } }

\* get_download_extension_urls as it would be if it kept the universal variant
get_download_extension_urls_all(data, vers) ==
    IF data.kind = "none" THEN {} ELSE Sources(data, vers)

\* Marketplace.get_download_extension_urls on the answer of the marketplace:
\* the platforms whose url it returns
get_download_extension_urls(data, vers) ==
    IF data.kind = "none" THEN {}
    ELSE LET sources == Sources(data, vers)
         IN  IF Cardinality(sources) > 1 /\ Universal \in sources
             THEN sources \ {Universal}
             ELSE sources

\* the files download_extensions submits a download for
Submitted(id, vers, sources, platforms) ==
    { ExtFile(id, vers, p) : p \in { q \in sources : q = Universal \/ q \in platforms } }

\* a future of the executor: the file its download_file call writes, whether
\* the call was given a hash, where the worker that runs it is, how
\* download_file ended, how its done callback ended, and the locals of
\* cleanup_old_extension_versions (the version directories and the files of
\* the listings not yet handled)
Future(file, hash) ==
    [file |-> file, hash |-> hash, st |-> "queued", result |-> "",
     callback |-> "", dirs |-> <<>>, files |-> <<>>]

\* the last extension download_extensions handled: the files of its version
\* that existed (`complete`: those of them completely written), what
\* is_extension_cached returned, the answer of the
\* marketplace, the platforms get_download_extension_urls returned, the
\* files a download was submitted for
Checked(id, vers, platforms, present, hit, data, urls, submitted) ==
    [id |-> id, version |-> vers, platforms |-> platforms, present |-> present,
     complete |-> {}, hit |-> hit, data |-> data, urls |-> urls,
     submitted |-> submitted]
NoCheck == Checked("", "", {}, {}, FALSE, Response("", {}), {}, {})

\* the locals of main at the start of a run: the platforms and
\* args.download_dists from the command line, the versions of the installed
\* extensions ExtIds[1], ExtIds[2], ... from load_extensions; inflight (no
\* local of main) keeps the futures whose transfer was going on when the run
\* was interrupted
Run(n, platforms, product, download_dists) ==
    [pc |-> "extensions", run |-> n, platforms |-> platforms, product |-> product,
     download_dists |-> download_dists, i |-> 1, hits |-> {}, files |-> {},
     inflight |-> {}]

\* no run of the downloader
NoDownload ==
    /\ cache = [f \in CacheFiles |-> "absent"]
    /\ version_dirs = {}
    /\ file_log = {}
    /\ futures = <<>>
    /\ main = [Run(0, {}, <<>>, FALSE) EXCEPT !.pc = "off"]
    /\ checked = NoCheck

-----------------------------------------------------------------------------
(* Specification: sessions on a code home that starts with no registry     *)

\* the state before the first session, given the two files
InitWith(ef, of) ==
    /\ extensions_file = ef
    /\ obsolete_file = of
    /\ dirs = { ef.data[i].relativeLocation : i \in 1..Len(ef.data) }
    /\ pc = "idle"
    /\ extensions = <<>>
    /\ obsolete = <<>>
    /\ extensions_dirty = FALSE
    /\ obsolete_dirty = FALSE
    /\ visited = 0
    /\ is_server \in BOOLEAN
    /\ current_platform \in Platforms
    /\ start = [extensions_file |-> ef, obsolete_file |-> of]
    /\ last = NoOp
    /\ other = NoOther
    /\ NoDownload

Init == InitWith(Absent, Absent)

Next ==
    \/ Enter /\ UNCHANGED dvars
    \/ \E vsix \in Packages : Install(vsix) /\ UNCHANGED dvars
    \/ \E vsix \in Packages : InstallRaises(vsix) /\ UNCHANGED dvars
    \/ Exit /\ UNCHANGED dvars

Spec == Init /\ [][Next]_vars

-----------------------------------------------------------------------------
(* Specifications that start from registry files left by earlier runs or   *)
(* by the host editor                                                      *)

\* entries such a file may hold; the third has the identifier in the case
\* the manifest gives it and a version that differs from b in case only
LoadedEntries ==
    { Entry(<<"P">>, <<"n">>, <<"1">>, Location(<<"P">>, <<"n">>, <<"1">>)),
      Entry(<<"P">>, <<"n">>, <<"b">>, Location(<<"P">>, <<"n">>, <<"b">>)),
      [Entry(<<"P">>, <<"n">>, <<"B">>, Location(<<"P">>, <<"n">>, <<"B">>))
          EXCEPT !.identifier = <<"P", ".", "n">>] }

SeqsUpTo(S, n) == UNION { [1..k -> S] : k \in 0..n }

LoadedExtensions == SeqsUpTo(LoadedEntries, MaxLoaded)

\* the obsolete logs such a file may hold: any of the entries' keys, true
LoadedObsolete ==
    UNION { [K -> {TRUE}] : K \in SUBSET { ObsoleteKey(e) : e \in LoadedEntries } }

InitLoaded ==
    \E exts \in LoadedExtensions, obs \in LoadedObsolete :
        InitWith(IF exts = <<>> THEN Absent ELSE Json(exts),
                 IF DOMAIN obs = {} THEN Absent ELSE Json(obs))

\* the entries of an identifier that is_obsolete does not filter out
Active(exts, obs, ext_id) ==
    { i \in 1..Len(exts) :
        Lower(exts[i].identifier) = ext_id /\ ~is_obsolete(obs, exts[i]) }

\* the identifiers of a registry sequence
Identifiers(exts) == { Lower(exts[i].identifier) : i \in 1..Len(exts) }

\* at most one entry of every identifier is not obsolete
Superseded(exts, obs) ==
    \A ext_id \in Identifiers(exts) : Cardinality(Active(exts, obs, ext_id)) <= 1

InitLoadedOk ==
    /\ InitLoaded
    /\ Superseded(extensions_file.data, obsolete_file.data)

\* any registry files
SpecLoaded == InitLoaded /\ [][Next]_vars

\* registry files in which every identifier has at most one active entry
SpecLoadedOk == InitLoadedOk /\ [][Next]_vars

\* registry files of which any may be absent, unparsable, or hold one entry
InitCorrupt ==
    \E exts \in {<<e>> : e \in LoadedEntries}, obs \in LoadedObsolete :
        \E ef \in {Absent, Corrupt, Json(exts)}, of \in {Absent, Corrupt, Json(obs)} :
            InitWith(ef, of)

NextCorrupt ==
    \/ Next
    \/ EnterRaises /\ UNCHANGED dvars

SpecCorrupt == InitCorrupt /\ [][NextCorrupt]_vars

\* sessions in which the extraction of a package may meet I/O failures
NextExtract ==
    \/ Next
    \/ \E vsix \in Packages, io \in IO : InstallIO(vsix, io) /\ UNCHANGED dvars

SpecExtract == Init /\ [][NextExtract]_vars

-----------------------------------------------------------------------------
(* Specification with two processes that run install_extensions on the     *)
(* same code home at the same time. Each has its own Extensions object;    *)
(* the two files and the extracted directories are shared.                 *)

\* the in-memory state of the second process, which runs one session
Mem2 ==
    [extensions |-> other.extensions, obsolete |-> other.obsolete,
     extensions_dirty |-> other.extensions_dirty,
     obsolete_dirty |-> other.obsolete_dirty, dirs |-> dirs]

\* Extensions.__enter__ in the second process
Enter2 ==
    /\ other.pc = "idle"
    /\ Readable(obsolete_file)
    /\ Readable(extensions_file)
    /\ other' = [pc |-> "session", extensions |-> extensions_file.data,
                 obsolete |-> obsolete_file.data, extensions_dirty |-> FALSE,
                 obsolete_dirty |-> FALSE, visited |-> 0]
    /\ UNCHANGED <<extensions_file, obsolete_file, dirs, pc, extensions, obsolete,
                   extensions_dirty, obsolete_dirty, visited, is_server,
                   current_platform, start, last>>

\* one iteration of the loop in the second process
Install2(vsix) ==
    /\ other.pc = "session"
    /\ other.visited < MaxOther
    /\ Outcome(Mem2, vsix, is_server, current_platform) # "raise"
    /\ LET st == install_extension(Mem2, vsix, is_server, current_platform)
       IN  /\ Len(st.extensions) <= MaxEntries
           /\ other' = [other EXCEPT !.extensions = st.extensions,
                                     !.obsolete = st.obsolete,
                                     !.extensions_dirty = st.extensions_dirty,
                                     !.obsolete_dirty = st.obsolete_dirty,
                                     !.visited = @ + 1]
           /\ dirs' = st.dirs
    /\ UNCHANGED <<extensions_file, obsolete_file, pc, extensions, obsolete,
                   extensions_dirty, obsolete_dirty, visited, is_server,
                   current_platform, start, last>>

\* Extensions.__exit__ in the second process, at the end of its loop or when
\* install_extension raised
Flush2 ==
    /\ obsolete_file' = IF other.obsolete_dirty THEN Json(other.obsolete)
                        ELSE obsolete_file
    /\ extensions_file' = IF other.extensions_dirty THEN Json(other.extensions)
                          ELSE extensions_file
    /\ other' = [other EXCEPT !.pc = "done"]
    /\ UNCHANGED <<dirs, pc, extensions, obsolete, extensions_dirty, obsolete_dirty,
                   visited, is_server, current_platform, start, last>>

InstallRaises2(vsix) ==
    /\ other.pc = "session"
    /\ other.visited < MaxOther
    /\ Outcome(Mem2, vsix, is_server, current_platform) = "raise"
    /\ Flush2

Exit2 ==
    /\ other.pc = "session"
    /\ Flush2

NextTwo ==
    \/ Next
    \/ Enter2 /\ UNCHANGED dvars
    \/ \E vsix \in Packages : Install2(vsix) /\ UNCHANGED dvars
    \/ \E vsix \in Packages : InstallRaises2(vsix) /\ UNCHANGED dvars
    \/ Exit2 /\ UNCHANGED dvars

\* both processes were started for the client home on the same machine
InitTwo ==
    /\ Init
    /\ ~is_server
    /\ current_platform = "linux-x64"

SpecTwo == InitTwo /\ [][NextTwo]_vars

-----------------------------------------------------------------------------
(* Specification with interruption: the process may be killed between any  *)
(* two operations of a session, also between the two writes of __exit__.   *)
(* A write itself is taken as atomic: a file cut short by a kill inside    *)
(* write_text is not modelled.                                             *)

\* __exit__ up to and including the write of .obsolete, when the loop is over
ExitObsolete ==
    /\ pc = "session"
    /\ obsolete_file' = WriteObsolete
    /\ pc' = "exit_obsolete"
    /\ last' = [Did("exit", NoPkg, "", 0, NoMem)
                   EXCEPT !.wrote = Wrote \cap {"obsolete"}]
    /\ UNCHANGED <<extensions_file, dirs, extensions, obsolete, extensions_dirty,
                   obsolete_dirty, visited, is_server, current_platform, other, start>>

\* the same when install_extension raised
RaisesObsolete(vsix) ==
    /\ pc = "session"
    /\ visited < MaxFiles
    /\ Outcome(Mem, vsix, is_server, current_platform) = "raise"
    /\ obsolete_file' = WriteObsolete
    /\ pc' = "exit_obsolete"
    /\ last' = [Did("install", vsix, "raise", 0, Mem)
                   EXCEPT !.wrote = Wrote \cap {"obsolete"}]
    /\ UNCHANGED <<extensions_file, dirs, extensions, obsolete, extensions_dirty,
                   obsolete_dirty, visited, is_server, current_platform, other, start>>

\* the rest of __exit__: the write of extensions.json
ExitExtensions ==
    /\ pc = "exit_obsolete"
    /\ extensions_file' = WriteExtensions
    /\ pc' = "idle"
    /\ last' = [last EXCEPT !.wrote = @ \cup (Wrote \cap {"extensions"})]
    /\ UNCHANGED <<obsolete_file, dirs, extensions, obsolete, extensions_dirty,
                   obsolete_dirty, visited, is_server, current_platform, other, start>>

\* the process is killed: the files stay as they are, the memory is lost
Crash ==
    /\ pc \in {"session", "exit_obsolete"}
    /\ pc' = "idle"
    /\ extensions' = <<>>
    /\ obsolete' = <<>>
    /\ extensions_dirty' = FALSE
    /\ obsolete_dirty' = FALSE
    /\ visited' = 0
    /\ last' = Did("crash", NoPkg, pc, 0, NoMem)
    /\ UNCHANGED <<extensions_file, obsolete_file, dirs, is_server,
                   current_platform, other, start>>

NextCrash ==
    \/ Enter /\ UNCHANGED dvars
    \/ \E vsix \in Packages : Install(vsix) /\ UNCHANGED dvars
    \/ ExitObsolete /\ UNCHANGED dvars
    \/ \E vsix \in Packages : RaisesObsolete(vsix) /\ UNCHANGED dvars
    \/ ExitExtensions /\ UNCHANGED dvars
    \/ Crash /\ UNCHANGED dvars

SpecCrash == Init /\ [][NextCrash]_vars

-----------------------------------------------------------------------------
(* dlvsix.py: main, Marketplace.download_extensions, download_file and the  *)
(* done callback of a download, one action for each step of the main thread *)
(* and of a worker thread that reads or writes the cache                    *)

\* SafeThreadPoolExecutor(10)
max_workers == 10

\* the futures a worker is running: neither waiting in the queue, nor
\* cancelled, nor done together with their callback
Running(fs) == { t \in DOMAIN fs : fs[t].st \notin {"queued", "cancelled", "done"} }

\* executor.shutdown as it would be with wait=False
Joined_nowait(fs) == TRUE

\* executor.shutdown(wait=True) returns: no future is queued or running
Joined(fs) == \A t \in DOMAIN fs : fs[t].st \in {"cancelled", "done"}

\* shutdown(wait=False, cancel_futures=True): the futures still in the queue
\* are cancelled, their callback finds fut.cancelled() true
Cancel(fs) ==
    [t \in DOMAIN fs |-> IF fs[t].st = "queued" THEN [fs[t] EXCEPT !.st = "cancelled"]
                         ELSE fs[t]]

\* the elements of a sequence that satisfy a set membership, in its order
Filter(order, S) == SelectSeq(order, LAMBDA x : x \in S)

\* the main thread after the loop body of download_extensions
Advance(m) ==
    IF m.i = Len(m.product) THEN [m EXCEPT !.i = @ + 1, !.pc = "dists"]
    ELSE [m EXCEPT !.i = @ + 1]

\* the record of the extension handled, with the files found complete
Seen(id, vers, platforms, present, hit, data, urls, submitted) ==
    [Checked(id, vers, platforms, present, hit, data, urls, submitted)
        EXCEPT !.complete = { f \in present : cache[f] = "complete" }]

\* download_extensions, one iteration of its loop: the cache check and, on a
\* miss, the marketplace query and the submission of the downloads. An
\* exception of urlopen leaves download_extensions, main and the with block
\* of App.create: SafeThreadPoolExecutor.__exit__ cancels the queue
DownloadExtension ==
    /\ main.pc = "extensions"
    /\ main.i <= Len(main.product)
    /\ LET id == ExtIds[main.i]
           vers == main.product[main.i]
           present == { f \in ExtFiles : f.id = id /\ f.version = vers /\ Exists(cache, f) }
       IN  \E order \in Orders(main.platforms) :
             LET c == is_extension_cached(cache, id, vers, order)
             IN  /\ file_log' = file_log \cup c.log
                 /\ IF c.hit
                    THEN /\ main' = [Advance(main) EXCEPT !.hits = @ \cup c.log]
                         /\ futures' = futures
                         /\ checked' = Seen(id, vers, main.platforms, present,
                                               TRUE, Response("", {}), {}, {})
                    ELSE \E data \in Responses(vers) :
                           IF data.kind = "error"
                           THEN /\ main' = [main EXCEPT !.pc = "raised"]
                                /\ futures' = Cancel(futures)
                                /\ checked' = Seen(id, vers, main.platforms, present,
                                                      FALSE, data, {}, {})
                           ELSE LET sources == get_download_extension_urls(data, vers)
                                    files == Submitted(id, vers, sources, main.platforms)
                                    new == Filter(VariantOrder, { f.platform : f \in files })
                                IN  /\ main' = Advance(main)
                                    /\ futures' = futures \o
                                          [k \in DOMAIN new |->
                                              Future(ExtFile(id, vers, new[k]), FALSE)]
                                    /\ checked' = Seen(id, vers, main.platforms, present,
                                                          FALSE, data, sources, files)
    /\ UNCHANGED <<cache, version_dirs>>

\* main after download_extensions: if args.download_dists,
\* Distributions.download_dist for the server archive: nothing to do if the
\* destination exists, else the query of the update API (urlopen, which may
\* raise) and the submission of the download with the hash the API gave
DownloadDist ==
    /\ main.pc = "dists"
    /\ IF ~main.download_dists
       THEN /\ file_log' = file_log
            /\ main' = [main EXCEPT !.pc = "shutdown"]
            /\ futures' = futures
       ELSE IF Exists(cache, DistFile)
       THEN /\ file_log' = file_log \cup {DistFile}
            /\ main' = [main EXCEPT !.pc = "shutdown", !.hits = @ \cup {DistFile}]
            /\ futures' = futures
       ELSE /\ file_log' = file_log
            /\ \E api \in {"error", "data"} :
                 IF api = "error"
                 THEN /\ main' = [main EXCEPT !.pc = "raised"]
                      /\ futures' = Cancel(futures)
                 ELSE /\ main' = [main EXCEPT !.pc = "shutdown"]
                      /\ futures' = Append(futures, Future(DistFile, TRUE))
    /\ UNCHANGED <<cache, version_dirs, checked>>

\* main: app.executor.shutdown() has waited for every future, and
\* files = sorted(file_log)
Shutdown ==
    /\ main.pc = "shutdown"
    /\ Joined(futures)
    /\ main' = [main EXCEPT !.pc = "done", !.files = file_log]
    /\ UNCHANGED <<cache, version_dirs, file_log, futures, checked>>

\* ThreadPoolExecutor.__exit__ after an exception of the main thread: the
\* running futures are waited for, then the exception ends the process
Exited ==
    /\ main.pc = "raised"
    /\ Joined(futures)
    /\ main' = [main EXCEPT !.pc = "exited"]
    /\ UNCHANGED <<cache, version_dirs, file_log, futures, checked>>

\* a future with a new state of its worker
Step(fs, t, st) == [fs EXCEPT ![t].st = st]

\* the callback of a future has returned: its locals are gone
Done(fs, t) ==
    [fs EXCEPT ![t].st = "done", ![t].callback = "returned",
               ![t].dirs = <<>>, ![t].files = <<>>]

\* the callback of a future has raised (FileNotFoundError, OSError)
Raised(fs, t) == [Done(fs, t) EXCEPT ![t].callback = "raised"]

\* download_file has returned or raised; download_extensions gave the future
\* a done callback, download_dist did not
Returned(fs, t, result) ==
    [fs EXCEPT ![t].result = result,
               ![t].st = IF fs[t].file \in ExtFiles THEN "callback" ELSE "done"]

\* the version directory of an extension file
Dir(id, vers) == <<id, vers>>

\* a worker takes a future from the queue; download_file creates the parent
\* directory and calls urlretrieve, which raises HTTPError or another
\* exception before it opens the destination, or opens (and truncates) it
Start(t) ==
    /\ futures[t].st = "queued"
    /\ Cardinality(Running(futures)) < max_workers
    /\ LET f == futures[t].file
       IN  /\ version_dirs' = IF f \in ExtFiles
                              THEN version_dirs \cup {Dir(f.id, f.version)}
                              ELSE version_dirs
           /\ \E outcome \in {"http", "raised", "open"} :
                IF outcome = "open"
                THEN /\ cache' = [cache EXCEPT ![f] = "partial"]
                     /\ futures' = Step(futures, t, "writing")
                ELSE /\ cache' = cache
                     /\ futures' = Returned(futures, t, outcome)
    /\ UNCHANGED <<file_log, main, checked>>

\* a verification that leaves the file where it is
verify_sha256_hash_keep(c, f, outcome) == c

\* verify_sha256_hash: the cache after it, the file unlinked if its hash is
\* not the expected one
verify_sha256_hash(c, f, outcome) ==
    IF outcome = "mismatch" THEN [c EXCEPT ![f] = "absent"] ELSE c

\* urlretrieve copies the response to the destination: to the end, or until
\* an exception (which leaves what was written); then, with a hash,
\* verify_sha256_hash, which unlinks the file on a mismatch
Transfer(t) ==
    /\ futures[t].st = "writing"
    /\ LET f == futures[t].file
       IN  \E outcome \in {"ok", "raised"} \cup (IF futures[t].hash THEN {"mismatch"} ELSE {}) :
             /\ cache' = verify_sha256_hash(
                            [cache EXCEPT ![f] = IF outcome = "raised" THEN "partial"
                                                 ELSE "complete"],
                            f, outcome)
             /\ file_log' = IF outcome = "ok" THEN file_log \cup {f} ELSE file_log
             /\ futures' = Returned(futures, t, outcome)
    /\ UNCHANGED <<version_dirs, main, checked>>

\* the done callback as it would be without the cleanup
Callback_skip(t) ==
    /\ futures[t].st = "callback"
    /\ futures' = Done(futures, t)
    /\ UNCHANGED <<cache, version_dirs, file_log, main, checked>>

\* the done callback of a future that was not cancelled:
\* cleanup_old_extension_versions lists the directory of the extension
Callback(t) ==
    /\ futures[t].st = "callback"
    /\ LET f == futures[t].file
           listed == Filter(VersionOrder,
                            { v \in Versions : Dir(f.id, v) \in version_dirs /\ v # f.version })
       IN  futures' = IF listed = <<>> THEN Done(futures, t)
                      ELSE [Step(futures, t, "dirs") EXCEPT ![t].dirs = listed]
    /\ UNCHANGED <<cache, version_dirs, file_log, main, checked>>

\* the callback is done with a version directory
NextDir(fs, t) ==
    IF Tail(fs[t].dirs) = <<>> THEN Done(fs, t)
    ELSE [Step(fs, t, "dirs") EXCEPT ![t].dirs = Tail(@)]

\* cleanup_old_extension_versions: vers_dir.is_dir() of the next entry
CleanupIsDir(t) ==
    /\ futures[t].st = "dirs"
    /\ futures' = IF Dir(futures[t].file.id, Head(futures[t].dirs)) \in version_dirs
                  THEN Step(futures, t, "listing")
                  ELSE NextDir(futures, t)
    /\ UNCHANGED <<cache, version_dirs, file_log, main, checked>>

\* cleanup_old_extension_versions: vers_dir.iterdir(), which raises if the
\* directory is gone
CleanupListDir(t) ==
    /\ futures[t].st = "listing"
    /\ LET id == futures[t].file.id
           d == Head(futures[t].dirs)
       IN  futures' = IF Dir(id, d) \notin version_dirs THEN Raised(futures, t)
                      ELSE [Step(futures, t, "files") EXCEPT
                               ![t].files = Filter(VariantOrder,
                                   { p \in Variants : Exists(cache, ExtFile(id, d, p)) })]
    /\ UNCHANGED <<cache, version_dirs, file_log, main, checked>>

\* cleanup_old_extension_versions: old_file.unlink(), which raises if the
\* file is gone
CleanupUnlink(t) ==
    /\ futures[t].st = "files"
    /\ futures[t].files # <<>>
    /\ LET f == ExtFile(futures[t].file.id, Head(futures[t].dirs), Head(futures[t].files))
       IN  IF Exists(cache, f)
           THEN /\ cache' = [cache EXCEPT ![f] = "absent"]
                /\ futures' = [futures EXCEPT ![t].files = Tail(@)]
           ELSE /\ cache' = cache
                /\ futures' = Raised(futures, t)
    /\ UNCHANGED <<version_dirs, file_log, main, checked>>

\* cleanup_old_extension_versions: vers_dir.rmdir(), which raises if the
\* directory is gone or not empty
CleanupRmdir(t) ==
    /\ futures[t].st = "files"
    /\ futures[t].files = <<>>
    /\ LET id == futures[t].file.id
           d == Head(futures[t].dirs)
       IN  IF /\ Dir(id, d) \in version_dirs
              /\ \A p \in Variants : ~Exists(cache, ExtFile(id, d, p))
           THEN /\ version_dirs' = version_dirs \ {Dir(id, d)}
                /\ futures' = NextDir(futures, t)
           ELSE /\ version_dirs' = version_dirs
                /\ futures' = Raised(futures, t)
    /\ UNCHANGED <<cache, file_log, main, checked>>

\* KeyboardInterrupt in the main thread (the user signal): the exception
\* leaves main and reaches SafeThreadPoolExecutor.__exit__, which cancels the
\* futures still in the queue and then, in ThreadPoolExecutor.__exit__,
\* waits for the workers (Exited)
Interrupt ==
    /\ main.pc \in {"extensions", "dists", "shutdown"}
    /\ main' = [main EXCEPT !.pc = "raised",
                            !.inflight = { t \in DOMAIN futures : futures[t].st = "writing" }]
    /\ futures' = Cancel(futures)
    /\ UNCHANGED <<cache, version_dirs, file_log, checked>>

\* the process is killed: its threads stop where they are, a destination
\* that was being written stays as it is
Kill ==
    /\ main.pc \in {"extensions", "dists", "shutdown", "raised"}
    /\ main' = [main EXCEPT !.pc = "killed"]
    /\ futures' = <<>>
    /\ UNCHANGED <<cache, version_dirs, file_log, checked>>

\* the sets of platforms main may compute from its arguments
PlatformSets == SUBSET TargetPlatforms \ {{}}

\* the versions the product may have installed after it had `product`
Upgrades(product) ==
    { p \in [DOMAIN product -> Versions] :
         \A i \in DOMAIN product : p[i] = product[i] \/ p[i] = "2" }

\* main is run again on the same workdir, after the product may have
\* updated extensions
Restart ==
    /\ main.pc \in {"done", "exited", "killed"}
    /\ main.run < MaxRuns
    /\ \E platforms \in PlatformSets, product \in Upgrades(main.product) :
          main' = Run(main.run + 1, platforms, product, main.download_dists)
    /\ file_log' = {}
    /\ futures' = <<>>
    /\ checked' = NoCheck
    /\ UNCHANGED <<cache, version_dirs>>

\* the installer at rest
NoSession ==
    /\ extensions_file = Absent
    /\ obsolete_file = Absent
    /\ dirs = {}
    /\ pc = "idle"
    /\ extensions = <<>>
    /\ obsolete = <<>>
    /\ extensions_dirty = FALSE
    /\ obsolete_dirty = FALSE
    /\ visited = 0
    /\ is_server = FALSE
    /\ current_platform = "linux-x64"
    /\ start = [extensions_file |-> Absent, obsolete_file |-> Absent]
    /\ last = NoOp
    /\ other = NoOther

\* the first run of main on an empty workdir, for a product with the
\* given number of extensions installed
InitRun(n, download_dists) ==
    /\ NoSession
    /\ cache = [f \in CacheFiles |-> "absent"]
    /\ version_dirs = {}
    /\ file_log = {}
    /\ futures = <<>>
    /\ \E platforms \in PlatformSets :
          main = Run(1, platforms, [i \in 1..n |-> "1"], download_dists)
    /\ checked = NoCheck

\* runs of main for one extension, without the distributions
InitDownload == InitRun(1, FALSE)

\* runs of main for one extension and the server distribution
InitDist == InitRun(1, TRUE)

\* the steps of the worker that runs a future
Worker(t) ==
    \/ Start(t)
    \/ Transfer(t)
    \/ Callback(t)
    \/ CleanupIsDir(t)
    \/ CleanupListDir(t)
    \/ CleanupUnlink(t)
    \/ CleanupRmdir(t)

NextRun ==
    \/ DownloadExtension /\ UNCHANGED ivars
    \/ DownloadDist /\ UNCHANGED ivars
    \/ Shutdown /\ UNCHANGED ivars
    \/ Exited /\ UNCHANGED ivars
    \/ \E t \in DOMAIN futures : Start(t) /\ UNCHANGED ivars
    \/ \E t \in DOMAIN futures : Transfer(t) /\ UNCHANGED ivars
    \/ \E t \in DOMAIN futures : Callback(t) /\ UNCHANGED ivars
    \/ \E t \in DOMAIN futures : CleanupIsDir(t) /\ UNCHANGED ivars
    \/ \E t \in DOMAIN futures : CleanupListDir(t) /\ UNCHANGED ivars
    \/ \E t \in DOMAIN futures : CleanupUnlink(t) /\ UNCHANGED ivars
    \/ \E t \in DOMAIN futures : CleanupRmdir(t) /\ UNCHANGED ivars

NextDownload ==
    \/ NextRun
    \/ Kill /\ UNCHANGED ivars
    \/ Restart /\ UNCHANGED ivars

SpecDownload == InitDownload /\ [][NextDownload]_vars

SpecDist == InitDist /\ [][NextDownload]_vars

\* a run of main on a workdir in which earlier runs left the files `old`,
\* for a product with the given versions of its extensions
InitCached(product, old) ==
    /\ NoSession
    /\ cache = [f \in CacheFiles |-> IF f \in old THEN "complete" ELSE "absent"]
    /\ version_dirs = { Dir(f.id, f.version) : f \in old }
    /\ file_log = {}
    /\ futures = <<>>
    /\ \E platforms \in PlatformSets : main = Run(1, platforms, product, FALSE)
    /\ checked = NoCheck

\* one run of main for a product with two extensions, the first of them
\* updated since the run that cached it
InitBatch == InitCached(<<"2", "1">>, {ExtFile("a", "1", Universal)})

SpecBatch == InitBatch /\ [][NextRun]_vars

\* one run of main for an extension that was updated since the runs that
\* cached any of the variants of its old version
InitCleanup ==
    \E S \in SUBSET Variants \ {{}} :
        InitCached(<<"2">>, { ExtFile("a", "1", p) : p \in S })

\* the futures a run for one extension may submit
Workers == 1..Cardinality(TargetPlatforms)

\* every thread that can take a step takes one: the main thread and the
\* worker of each future; a transfer ends, with success or with an exception
Fairness ==
    /\ WF_vars(DownloadExtension /\ UNCHANGED ivars)
    /\ WF_vars(DownloadDist /\ UNCHANGED ivars)
    /\ WF_vars(Shutdown /\ UNCHANGED ivars)
    /\ WF_vars(Exited /\ UNCHANGED ivars)
    /\ \A t \in Workers : WF_vars(t \in DOMAIN futures /\ Worker(t) /\ UNCHANGED ivars)

SpecCleanup == InitCleanup /\ [][NextRun]_vars /\ Fairness

\* one such run, which the user may interrupt
NextInterrupt ==
    \/ NextRun
    \/ Interrupt /\ UNCHANGED ivars

SpecInterrupt == InitCleanup /\ [][NextInterrupt]_vars

-----------------------------------------------------------------------------
(* The distribution layer: which artifacts main requests for its platform  *)
(* arguments. A platform identifier <os>-<arch> is the pair <<os, arch>>,   *)
(* a download key or file name the sequence of its dash-separated parts.   *)

\* TARGET_PLATFORMS, in the order of the list
TARGET_PLATFORMS ==
    << <<"win32", "x64">>, <<"win32", "arm64">>, <<"darwin", "x64">>,
       <<"darwin", "arm64">>, <<"linux", "x64">>, <<"linux", "arm64">>,
       <<"linux", "armhf">>, <<"alpine", "x64">>, <<"alpine", "arm64">> >>

\* the value of --platform / --server-platform that stands for all of them
ALL == <<"ALL">>

Range(s) == { s[i] : i \in DOMAIN s }

\* the platform as the string the marketplace and the cache file names use
Name(p) == p[1] \o "-" \o p[2]

\* product.json: applicationName, version, darwinExecutable and the basename
\* of the win32 user setup
ApplicationName == "code"
ProductVersion == "V"
DarwinExecutable == "VSCode"
Win32Basename == "VSCodeUserSetup"

is_linux(p) == p[1] \in {"linux", "alpine"}

get_platform_server_download(p) ==
    IF p = <<"darwin", "x64">> THEN <<"server", "darwin">> ELSE <<"server">> \o p

get_platform_client_download(p) ==
    IF p \in {<<"win32", "x64">>, <<"win32", "arm64">>} THEN p \o <<"user">>
    ELSE IF p = <<"darwin", "x64">> THEN <<"darwin">>
    ELSE p

\* Product.get_platform_server_name
get_platform_server_name(p) ==
    <<ApplicationName, "server">>
        \o (IF p = <<"darwin", "x64">> THEN <<"darwin">> ELSE p)
        \o <<ProductVersion, IF is_linux(p) THEN "tar.gz" ELSE "zip">>

\* Product.get_platform_client_name, for a platform of TARGET_PLATFORMS
get_platform_client_name(p) ==
    IF p \in {<<"win32", "x64">>, <<"win32", "arm64">>}
    THEN <<Win32Basename, "user">> \o p \o <<ProductVersion, "exe">>
    ELSE IF p \in {<<"darwin", "x64">>, <<"darwin", "arm64">>}
    THEN <<DarwinExecutable>> \o (IF p[2] = "x64" THEN <<"darwin">> ELSE p)
            \o <<ProductVersion, "zip">>
    ELSE <<ApplicationName, "stable">> \o p \o <<ProductVersion, "tar.gz">>

\* Distributions.get_dist_platforms
get_dist_platforms(target_platform) ==
    IF target_platform = ALL THEN Range(TARGET_PLATFORMS) ELSE {target_platform}

\* a call download_dist(dist, dest) on a workdir that holds no distribution:
\* the file the download submitted writes
Request(dist, dest) == [dist |-> dist, dest |-> dest]

\* the platforms the loops of download_client and download_server handle,
\* in the order of TARGET_PLATFORMS (the order plays no role for the
\* requests made)
DistPlatforms(target_platform) ==
    SelectSeq(TARGET_PLATFORMS,
              LAMBDA p : p \in get_dist_platforms(target_platform) /\ p[1] # "alpine")

\* the replacement both functions start with
Alias(target_platform) ==
    IF target_platform[1] = "alpine" THEN <<"linux", target_platform[2]>>
    ELSE target_platform

\* Distributions.download_client: the calls of download_dist it makes (the
\* removal of old distribution directories it starts with is left out)
download_client(target_platform) ==
    LET ps == DistPlatforms(Alias(target_platform))
    IN  [i \in DOMAIN ps |->
            Request(get_platform_client_download(ps[i]), get_platform_client_name(ps[i]))]

\* download_server without the replacement of alpine
download_server_noalias(target_platform) ==
    LET ps == DistPlatforms(target_platform)
    IN  [i \in DOMAIN ps |->
            Request(get_platform_server_download(ps[i]), get_platform_server_name(ps[i]))]

\* Distributions.download_server: the calls of download_dist it makes
download_server(target_platform) ==
    LET ps == DistPlatforms(Alias(target_platform))
    IN  [i \in DOMAIN ps |->
            Request(get_platform_server_download(ps[i]), get_platform_server_name(ps[i]))]

\* main: the set platforms it passes to download_extensions
MainPlatforms(platform, server_platform) ==
    IF platform = ALL \/ server_platform = ALL
    THEN { Name(p) : p \in Range(TARGET_PLATFORMS) }
    ELSE {Name(platform), Name(server_platform)}

\* the locals of main in a run with the given --platform and
\* --server-platform; offered: the variants the marketplace offered
Args(platform, server_platform) ==
    [pc |-> "extensions", platform |-> platform, server_platform |-> server_platform,
     platforms |-> MainPlatforms(platform, server_platform), offered |-> {}]

\* the futures of a sequence of files
Submit(files, hash) == [i \in DOMAIN files |-> Future(files[i], hash)]

\* the variants the marketplace may offer of the one extension of these runs
AliasVariants == {Universal, "linux-x64", "alpine-x64"}
AliasOrder == <<Universal, "linux-x64", "alpine-x64">>

\* Marketplace.download_extensions for one extension that is not cached
DownloadExtensionsFor ==
    /\ main.pc = "extensions"
    /\ \E offered \in SUBSET AliasVariants :
          LET data == Response("data", { Row("1", p) : p \in offered })
              urls == get_download_extension_urls(data, "1")
              files == Filter(AliasOrder,
                              { f.platform : f \in Submitted("a", "1", urls, main.platforms) })
          IN  /\ futures' = futures \o
                     Submit([i \in DOMAIN files |-> ExtFile("a", "1", files[i])], FALSE)
              /\ main' = [main EXCEPT !.pc = "client", !.offered = offered]
    /\ UNCHANGED <<cache, version_dirs, file_log, checked>>

\* main: dists.download_client(args.platform)
DownloadClient ==
    /\ main.pc = "client"
    /\ futures' = futures \o Submit(download_client(main.platform), TRUE)
    /\ main' = [main EXCEPT !.pc = "server"]
    /\ UNCHANGED <<cache, version_dirs, file_log, checked>>

\* main: dists.download_server(args.server_platform)
DownloadServer ==
    /\ main.pc = "server"
    /\ futures' = futures \o Submit(download_server(main.server_platform), TRUE)
    /\ main' = [main EXCEPT !.pc = "submitted"]
    /\ UNCHANGED <<cache, version_dirs, file_log, checked>>

InitAlias ==
    /\ NoSession
    /\ cache = [f \in CacheFiles |-> "absent"]
    /\ version_dirs = {}
    /\ file_log = {}
    /\ futures = <<>>
    /\ \E platform, server_platform \in Range(TARGET_PLATFORMS) \cup {ALL} :
          main = Args(platform, server_platform)
    /\ checked = NoCheck

NextAlias ==
    \/ DownloadExtensionsFor /\ UNCHANGED ivars
    \/ DownloadClient /\ UNCHANGED ivars
    \/ DownloadServer /\ UNCHANGED ivars

SpecAlias == InitAlias /\ [][NextAlias]_vars

\* Distributions.download_cli: the calls of download_dist it makes, in the
\* order of TARGET_PLATFORMS
download_cli(target_platform) ==
    LET ps == SelectSeq(TARGET_PLATFORMS,
                        LAMBDA p : p \in get_dist_platforms(target_platform))
    IN  [i \in DOMAIN ps |->
            Request(<<"cli">> \o ps[i],
                    <<"vscode", "cli">> \o ps[i]
                        \o <<"cli", IF ps[i][1] = "win32" THEN "zip" ELSE "tar.gz">>)]

\* main: dists.download_cli(args.server_platform)
DownloadCli ==
    /\ main.pc = "submitted"
    /\ futures' = futures \o Submit(download_cli(main.server_platform), TRUE)
    /\ main' = [main EXCEPT !.pc = "cli"]
    /\ UNCHANGED <<cache, version_dirs, file_log, checked>>

\* install-server.py as copy_install_script writes it for a server platform:
\* ext and server_platform
InstallerExt(PLATFORM) ==
    IF PLATFORM[1] \in {"linux", "alpine"} THEN "tar.gz" ELSE "zip"

InstallerServerPlatform(PLATFORM) ==
    IF PLATFORM[1] = "alpine" THEN <<"linux", PLATFORM[2]>> ELSE PLATFORM

\* install-server.py: the names of DATA_CLI_TAR and DATA_SERVER_TAR below
\* dist/<commit>
DATA_CLI_TAR(PLATFORM) ==
    <<"vscode", "cli">> \o PLATFORM \o <<"cli", InstallerExt(PLATFORM)>>

DATA_SERVER_TAR(PLATFORM) ==
    <<"code", "server">> \o InstallerServerPlatform(PLATFORM)
        \o <<ProductVersion, InstallerExt(PLATFORM)>>

\* the runs of main up to the CLI download
NextServer ==
    \/ NextAlias
    \/ DownloadCli /\ UNCHANGED ivars

SpecServer == InitAlias /\ [][NextServer]_vars

-----------------------------------------------------------------------------
(* Runs with --dry-run: App.run_fn logs the call instead of making it, and  *)
(* cleanup_old_extension_versions logs what it would remove.                *)

\* a directory below workdir/dist/<commit>, e.g. an archive unpacked in place
DistSubdir == <<"dist", "commit", "unpacked">>

\* Distributions.download_client, its first loop: every directory in
\* dist_dir whose name is not the commit is removed with shutil.rmtree
RemoveOldDist ==
    /\ main.pc = "dists"
    /\ main.download_dists
    /\ DistSubdir \in version_dirs
    /\ version_dirs' = version_dirs \ {DistSubdir}
    /\ UNCHANGED <<cache, file_log, futures, main, checked>>

\* App.run_fn with dry_run set: the worker logs the call, download_file is
\* not executed
RunFnDry(t) ==
    /\ futures[t].st = "queued"
    /\ Cardinality(Running(futures)) < max_workers
    /\ futures' = Returned(futures, t, "dry")
    /\ UNCHANGED <<cache, version_dirs, file_log, main, checked>>

\* cleanup_old_extension_versions with dry_run set: the file is logged
CleanupLogFile(t) ==
    /\ futures[t].st = "files"
    /\ futures[t].files # <<>>
    /\ futures' = [futures EXCEPT ![t].files = Tail(@)]
    /\ UNCHANGED <<cache, version_dirs, file_log, main, checked>>

\* cleanup_old_extension_versions with dry_run set: the directory is logged
CleanupLogDir(t) ==
    /\ futures[t].st = "files"
    /\ futures[t].files = <<>>
    /\ futures' = NextDir(futures, t)
    /\ UNCHANGED <<cache, version_dirs, file_log, main, checked>>

\* the files and directories of the workdir before a dry run: every variant
\* of version 1 of the first extension, and a directory below dist/<commit>
DryFiles == { ExtFile(ExtIds[1], "1", p) : p \in Variants }
DryDirs == {Dir(ExtIds[1], "1"), DistSubdir}

\* a dry run of main, with the distributions, for a product that has
\* version 2 of the extension
InitDry ==
    /\ NoSession
    /\ cache = [f \in CacheFiles |-> IF f \in DryFiles THEN "complete" ELSE "absent"]
    /\ version_dirs = DryDirs
    /\ file_log = {}
    /\ futures = <<>>
    /\ \E platforms \in PlatformSets : main = Run(1, platforms, <<"2">>, TRUE)
    /\ checked = NoCheck

NextDry ==
    \/ DownloadExtension /\ UNCHANGED ivars
    \/ RemoveOldDist /\ UNCHANGED ivars
    \/ DownloadDist /\ UNCHANGED ivars
    \/ Shutdown /\ UNCHANGED ivars
    \/ Exited /\ UNCHANGED ivars
    \/ \E t \in DOMAIN futures : RunFnDry(t) /\ UNCHANGED ivars
    \/ \E t \in DOMAIN futures : Callback(t) /\ UNCHANGED ivars
    \/ \E t \in DOMAIN futures : CleanupIsDir(t) /\ UNCHANGED ivars
    \/ \E t \in DOMAIN futures : CleanupListDir(t) /\ UNCHANGED ivars
    \/ \E t \in DOMAIN futures : CleanupLogFile(t) /\ UNCHANGED ivars
    \/ \E t \in DOMAIN futures : CleanupLogDir(t) /\ UNCHANGED ivars

SpecDry == InitDry /\ [][NextDry]_vars

-----------------------------------------------------------------------------
(* The names of the entries of an archive and the files extract_vsix       *)
(* writes for them. A name and a path are sequences of segments, the parts *)
(* between the slashes.                                                    *)

\* the working directory of the script, an absolute path
Cwd == <<"w">>

\* os.path.normpath of an absolute path: "." is dropped, ".." removes the
\* segment before it and is dropped at the root
RECURSIVE normpath(_)
normpath(path) ==
    IF path = <<>> THEN <<>>
    ELSE LET front == normpath(SubSeq(path, 1, Len(path) - 1))
             comp == path[Len(path)]
         IN  IF comp = "." THEN front
             ELSE IF comp = ".."
                  THEN IF front = <<>> THEN <<>>
                       ELSE SubSeq(front, 1, Len(front) - 1)
                  ELSE Append(front, comp)

\* os.path.abspath of a relative path
abspath(path) == normpath(Cwd \o path)

\* len(commonprefix([start_list, path_list]))
RECURSIVE commonprefix(_, _)
commonprefix(a, b) ==
    IF a # <<>> /\ b # <<>> /\ Head(a) = Head(b)
    THEN 1 + commonprefix(Tail(a), Tail(b))
    ELSE 0

\* os.path.relpath(path, start); <<>> stands for "."
relpath(path, start_dir) ==
    LET start_list == abspath(start_dir)
        path_list == abspath(path)
        i == commonprefix(start_list, path_list)
    IN  [k \in 1..(Len(start_list) - i) |-> ".."]
            \o SubSeq(path_list, i + 1, Len(path_list))

\* the file that dest / target names when it is opened: up levels above dest,
\* then down. pathlib joins without normalising and the system resolves each
\* ".." to the parent directory (no symbolic links; dest lies at least as
\* deep as the ".." segments reach)
RECURSIVE Resolve(_)
Resolve(target) ==
    IF target = <<>> THEN [up |-> 0, down |-> <<>>]
    ELSE LET r == Resolve(SubSeq(target, 1, Len(target) - 1))
             comp == target[Len(target)]
         IN  IF comp = ".."
             THEN IF r.down = <<>> THEN [r EXCEPT !.up = @ + 1]
                  ELSE [r EXCEPT !.down = SubSeq(@, 1, Len(@) - 1)]
             ELSE [r EXCEPT !.down = Append(@, comp)]

\* entry.startswith("extension/")
IsPayload(entry) == Len(entry) >= 2 /\ entry[1] = "extension"

\* the names an archive may hold besides extension.vsixmanifest
EntryNames ==
    { <<"extension", "package.json">>,
      <<"extension", "out", "..", "main.js">>,
      <<"extension", "..", "evil">>,
      <<"extension", "..", "..", "evil">>,
      <<"extension", "..">>,
      <<"assets", "icon">> }

\* z.namelist() without the manifest
NameLists == UNION { [1..n -> EntryNames] : n \in 1..MaxPayload }

\* the files extract_vsix opens for writing and thereby creates or
\* overwrites, each with the entry it is written from: the manifest, and for
\* every payload entry the target; a target that resolves to dest or to a
\* directory above it cannot be opened for writing (IsADirectoryError, an
\* OSError the try catches)
ExtractedFiles(names) ==
    { [entry |-> <<"extension.vsixmanifest">>,
       path |-> Resolve(<<".vsixmanifest">>)] }
        \cup { [entry |-> names[i],
                path |-> Resolve(relpath(names[i], <<"extension">>))] :
                   i \in { k \in DOMAIN names :
                             /\ IsPayload(names[k])
                             /\ Resolve(relpath(names[k], <<"extension">>)).down # <<>> } }

\* one iteration of the loop of install_extensions on a package that
\* install_extension extracts and commits, with the names of its entries
InstallZip(vsix, names) ==
    /\ pc = "session"
    /\ visited < MaxFiles
    /\ Outcome(Mem, vsix, is_server, current_platform) = "commit"
    /\ LET st == install_extension(Mem, vsix, is_server, current_platform)
       IN  /\ Len(st.extensions) <= MaxEntries
           /\ extensions' = st.extensions
           /\ obsolete' = st.obsolete
           /\ extensions_dirty' = st.extensions_dirty
           /\ obsolete_dirty' = st.obsolete_dirty
           /\ dirs' = st.dirs
    /\ visited' = visited + 1
    /\ last' = [Did("install", vsix, "commit", Installed(Mem, vsix), Mem)
                   EXCEPT !.files = ExtractedFiles(names)]
    /\ UNCHANGED <<extensions_file, obsolete_file, pc, is_server, current_platform,
                   other, start>>

\* sessions in which the names of the entries of a package are given
NextZip ==
    \/ Next
    \/ \E vsix \in Packages, names \in NameLists :
           InstallZip(vsix, names) /\ UNCHANGED dvars

SpecZip == Init /\ [][NextZip]_vars

-----------------------------------------------------------------------------
(* Properties *)

\* the last operation was an install that reached the lookup (step 3)
LookedUp == last.op = "install" /\ last.outcome \in {"already", "commit"}

\* the last operation was an install that committed an entry
Committed == last.op = "install" /\ last.outcome = "commit"

\* the identifier and version of the package the last install handled
LastId == ManifestId(last.vsix.publisher, last.vsix.id)
LastVersion == last.vsix.version

\* the entries of an identifier
EntriesOf(exts, ext_id) ==
    { i \in 1..Len(exts) : Lower(exts[i].identifier) = ext_id }

\* C1: supersession invariant. Starting from no registry or from registry
\* files in which every identifier has at most one entry that is not
\* obsolete, after any sequence of installs every identifier has at most one
\* entry that is in the registry sequence and not marked true in the obsolete
\* log, in memory and in the files.
C1_Supersession ==
    /\ Superseded(extensions, obsolete)
    /\ Superseded(extensions_file.data, obsolete_file.data)

\* an install superseded an entry: its identifier has several entries and
\* one of them is active
C1_Witness ==
    /\ Committed
    /\ last.installed # 0
    /\ Cardinality(EntriesOf(extensions, LastId)) >= 2
    /\ Cardinality(Active(extensions, obsolete, LastId)) = 1

\* C2: idempotence. In every state an install leaves, installing the same
\* package once more changes nothing: not the registry sequence, not the
\* obsolete log, not the dirty flags, not the extracted directories.
C2_Idempotent ==
    (pc = "session" /\ last.op = "install") =>
        install_extension(Mem, last.vsix, is_server, current_platform) = Mem

\* an install committed an entry and superseded another one
C2_Witness ==
    /\ pc = "session"
    /\ Committed
    /\ last.installed # 0
    /\ Len(extensions) = Len(last.before.extensions) + 1

\* version v of the identifier was installed and a later install of another
\* version marked it obsolete
Superseding(exts, obs, ext_id, v) ==
    \E i, j \in EntriesOf(exts, ext_id) :
        /\ i < j
        /\ exts[i].version = v
        /\ is_obsolete(obs, exts[i])
        /\ exts[j].version # v
        /\ ~is_obsolete(obs, exts[j])

\* the last install found the registry with its own version superseded
ReinstallOfSuperseded ==
    /\ LookedUp
    /\ Superseding(last.before.extensions, last.before.obsolete, LastId, LastVersion)

\* C3 as stated: after 1.0 and then 2.0 of an identifier were installed, an
\* install of 1.0 is not treated as already installed.
C3_Original == ReinstallOfSuperseded => last.outcome # "already"

\* C3 as amended: after 1.0 and then 2.0 of an identifier were installed, an
\* install of 1.0 is treated as already installed: it is skipped and changes
\* nothing.
C3_ReinstallSkipped ==
    ReinstallOfSuperseded => (last.outcome = "already" /\ Mem = last.before)

\* an install of a superseded version was skipped on the obsolete entry of
\* that version
C3_Witness ==
    /\ ReinstallOfSuperseded
    /\ last.outcome = "already"
    /\ is_obsolete(obsolete, extensions[last.installed])

\* C4: in every state reached from the empty registry in which the registry
\* holds an entry (I, v) that is marked obsolete, an install of a package
\* (I, v) is detected as already installed and changes neither the registry
\* sequence nor the obsolete log.
C4_ObsoleteSameVersion ==
    (/\ LookedUp
     /\ \E i \in EntriesOf(last.before.extensions, LastId) :
            /\ last.before.extensions[i].version = LastVersion
            /\ is_obsolete(last.before.obsolete, last.before.extensions[i]))
    => (/\ last.outcome = "already"
        /\ extensions = last.before.extensions
        /\ obsolete = last.before.obsolete)

\* an install found its own version obsolete while no entry of the
\* identifier is active
C4_Witness ==
    /\ LookedUp
    /\ last.installed # 0
    /\ extensions[last.installed].version = LastVersion
    /\ is_obsolete(obsolete, extensions[last.installed])
    /\ Active(extensions, obsolete, LastId) = {}
    /\ last.outcome = "already"

\* the last install reached the lookup in a registry that one install of
\* another version of the same identifier had built from the empty registry
SecondVersion ==
    /\ LookedUp
    /\ Len(last.before.extensions) = 1
    /\ DOMAIN last.before.obsolete = {}
    /\ last.before.extensions[1].identifier = LastId
    /\ last.before.extensions[1].version # LastVersion

\* the versions of the entries of an identifier that are not obsolete
ActiveVersions(exts, obs, ext_id) ==
    { exts[i].version : i \in Active(exts, obs, ext_id) }

\* C5 as stated: from the empty registry, installing v1 and then a different
\* version v2 of the same identifier yields a registry sequence of length 2
\* that still holds the v1 entry, an obsolete log that maps the lower-cased
\* "<identifier>-<v1>" to true, and v2 as the only active version.
C5_Original ==
    SecondVersion =>
        LET old == last.before.extensions[1]
            key == Lower(LastId \o Dash \o old.version)
        IN  /\ Len(extensions) = 2
            /\ extensions[1] = old
            /\ key \in DOMAIN obsolete
            /\ obsolete[key]
            /\ ActiveVersions(extensions, obsolete, LastId) = {LastVersion}

\* C6 as stated: after any sequence of installs from the empty registry every
\* identifier with an entry has exactly one entry that is not obsolete, the
\* most recently appended one of the identifier, and an entry an install
\* committed is not obsolete right after the install.
C6_Original ==
    /\ \A ext_id \in Identifiers(extensions) :
          Active(extensions, obsolete, ext_id) = {Max(EntriesOf(extensions, ext_id))}
    /\ Committed => ~is_obsolete(obsolete, extensions[Len(extensions)])

\* the last install looked up an identifier of which several entries were
\* not obsolete
Duplicates ==
    /\ LookedUp
    /\ Cardinality(Active(last.before.extensions, last.before.obsolete, LastId)) >= 2

\* the entries the lookup of the last install could return
LastMatches ==
    Matches(last.before.extensions, last.before.obsolete, LastId, LastVersion)

\* the obsolete log with one more key set
Marked(obs, key) ==
    [k \in DOMAIN obs \cup {key} |-> IF k = key THEN TRUE ELSE obs[k]]

C8_Supersede ==
    Committed =>
        IF last.installed # 0
        THEN LET key == Lower(LastId \o Dash
                              \o last.before.extensions[last.installed].version)
             IN  /\ DOMAIN obsolete = DOMAIN last.before.obsolete \cup {key}
                 /\ obsolete[key]
                 /\ \A k \in DOMAIN last.before.obsolete \ {key} :
                        obsolete[k] = last.before.obsolete[k]
                 /\ obsolete_dirty
        ELSE /\ obsolete = last.before.obsolete
             /\ obsolete_dirty = last.before.obsolete_dirty

\* an install superseded a version written in upper case while the log held
\* another key, and a later one found nothing in the same session
C8_Witness ==
    /\ Committed
    /\ last.installed = 0
    /\ obsolete_dirty
    /\ Cardinality(DOMAIN obsolete) >= 1
    /\ \E i \in 1..Len(extensions) :
          extensions[i].version = <<"B">> /\ is_obsolete(obsolete, extensions[i])

IsPrefix(s, t) == Len(s) <= Len(t) /\ SubSeq(t, 1, Len(s)) = s

\* C9: the registry sequence is append-only. Every install leaves the
\* entries that existed before it in place, unchanged and in order; a
\* committing install appends exactly one entry, any other install none; and
\* extensions.json keeps the entries the session found in it as a prefix.
C9_AppendOnly ==
    /\ last.op = "install" =>
          /\ IsPrefix(last.before.extensions, extensions)
          /\ Len(extensions) = Len(last.before.extensions)
                                  + (IF last.outcome = "commit" THEN 1 ELSE 0)
    /\ IsPrefix(start.extensions_file.data, extensions_file.data)

\* an install appended a third entry and the session has flushed
C9_Witness ==
    /\ pc = "idle"
    /\ Len(extensions_file.data) = 3
    /\ Len(start.extensions_file.data) = 1
    /\ extensions_file.data[1] = start.extensions_file.data[1]

\* the identifiers with an entry that is not obsolete
ActiveIds(exts, obs) ==
    { ext_id \in Identifiers(exts) : Active(exts, obs, ext_id) # {} }

Flushed == pc = "idle" /\ last.op \in {"exit", "install"}

\* C11: dirty-flag gated flush. At session end each of the two files is
\* written if and only if its in-memory structure differs from what the
\* session loaded, a written file holds the in-memory structure and a file
\* not written is as the session found it; a session whose installs were all
\* skipped writes neither file; and while the session runs both files are
\* as the session found them.
C11_GatedFlush ==
    /\ pc = "session" =>
          /\ extensions_file = start.extensions_file
          /\ obsolete_file = start.obsolete_file
    /\ Flushed =>
          /\ ("extensions" \in last.wrote) <=> (extensions # start.extensions_file.data)
          /\ ("obsolete" \in last.wrote) <=> (obsolete # start.obsolete_file.data)
          /\ extensions_file = IF "extensions" \in last.wrote
                               THEN Json(extensions) ELSE start.extensions_file
          /\ obsolete_file = IF "obsolete" \in last.wrote
                             THEN Json(obsolete) ELSE start.obsolete_file

\* a session that superseded an entry wrote both files, the obsolete log
\* for the first time
C11_Witness ==
    /\ Flushed
    /\ last.wrote = {"obsolete", "extensions"}
    /\ start.obsolete_file = Absent
    /\ start.extensions_file.kind = "json"
    /\ obsolete_file.kind = "json"

\* C12: platform filter. An install of a manifest whose targetPlatform is
\* set and is not the platform of the runtime changes neither the registry
\* sequence nor the obsolete log nor a dirty flag and extracts no directory.
C12_PlatformFilter ==
    (/\ last.op = "install"
     /\ last.vsix.zip = "ok"
     /\ last.vsix.platform # NoPlatform
     /\ last.vsix.platform # current_platform)
    => (/\ last.outcome \in {"kind", "platform"}
        /\ Mem = last.before)

\* a manifest for another platform was skipped in a session that had
\* installed an entry before
C12_Witness ==
    /\ pc = "session"
    /\ last.op = "install"
    /\ last.outcome = "platform"
    /\ last.vsix.platform # current_platform
    /\ Len(extensions) >= 1

\* the outcomes of the last install for every capability set the manifest
\* could carry
OutcomesByKinds ==
    { Outcome(last.before, [last.vsix EXCEPT !.kinds = k], is_server, current_platform) :
        k \in SUBSET {"ui", "workspace"} }

\* C13: host-kind filter. In server mode an install of a manifest whose
\* capability set does not hold "workspace" (the empty set of a manifest
\* without the property included) changes no state and extracts nothing; in
\* client mode the capability set has no influence on how the install ends.
C13_KindFilter ==
    (last.op = "install" /\ last.vsix.zip = "ok") =>
        /\ (is_server /\ "workspace" \notin last.vsix.kinds) =>
              (last.outcome = "kind" /\ Mem = last.before)
        /\ ~is_server => (last.outcome # "kind" /\ OutcomesByKinds = {last.outcome})

\* in server mode a manifest without the capability property was skipped
C13_Witness ==
    /\ is_server
    /\ last.op = "install"
    /\ last.vsix.zip = "ok"
    /\ last.vsix.kinds = {}
    /\ last.outcome = "kind"

\* the files of the version download_extensions last checked
CheckedFile(p) == ExtFile(checked.id, checked.version, p)

\* C14: cache-hit rule. is_extension_cached returns true exactly when the
\* platform-independent file of the version exists or a platform file
\* exists for every requested platform.
C14_CacheHit ==
    checked.id # "" =>
        (checked.hit <=>
            \/ CheckedFile(Universal) \in checked.present
            \/ \A p \in checked.platforms : CheckedFile(p) \in checked.present)

\* two platforms were requested and the file of one of them only was there:
\* not a hit
C14_Witness ==
    /\ checked.id # ""
    /\ ~checked.hit
    /\ checked.platforms = TargetPlatforms
    /\ checked.present = {CheckedFile("linux-x64")}

Offered == Sources(checked.data, checked.version)

\* the variants get_download_extension_urls returned for it
Resolved == checked.urls

\* C16: universal/platform tie-break. The resolved set holds the universal
\* variant if and only if it is the only variant the marketplace offers for
\* the version; otherwise it is exactly the platform variants offered.
C16_TieBreak ==
    checked.data.kind = "data" =>
        /\ (Universal \in Resolved) <=> (Offered = {Universal})
        /\ Offered # {Universal} => Resolved = Offered \ {Universal}

\* universal and both platforms were offered, one platform was requested
C16_Witness ==
    /\ checked.data.kind = "data"
    /\ Offered = Variants
    /\ checked.platforms = {"linux-x64"}
    /\ checked.submitted = {CheckedFile("linux-x64")}

\* C18: a destination left partially written by an interrupted download is
\* never accepted as a cache hit: every file a run found cached is
\* completely written.
C18_Original == \A f \in main.hits : cache[f] = "complete"

\* the files the run has downloaded with success
Downloaded == { futures[t].file : t \in { u \in DOMAIN futures : futures[u].result = "ok" } }

\* C19: touched-files set. Every file that was a cache hit or was downloaded
\* with success is in file_log from then on, under every interleaving of
\* main and the workers, and is in `files` when main computes the archive
\* membership.
C19_TouchedFiles ==
    /\ main.hits \cup Downloaded \subseteq file_log
    /\ main.pc = "done" => main.hits \cup Downloaded \subseteq main.files

\* a run ended with two downloaded files in the archive membership
C19_Witness ==
    /\ main.pc = "done"
    /\ Cardinality(Downloaded) = 2
    /\ Downloaded \subseteq main.files

\* C20: failure isolation in the downloader. A failure local to one
\* extension does not abort the batch: the run does not end before
\* download_extensions has handled every extension.
C20_Original == main.pc \in {"raised", "exited"} => main.i > Len(main.product)

\* a download of the version of ExtIds[i] the product has installed succeeded
Succeeded(i) ==
    /\ i \in DOMAIN main.product
    /\ \E t \in DOMAIN futures :
          /\ futures[t].file = ExtFile(ExtIds[i], main.product[i], futures[t].file.platform)
          /\ futures[t].result = "ok"

\* no version directory of ExtIds[i] other than that of the installed version
Clean(i) ==
    \A d \in version_dirs : d[1] = ExtIds[i] => d[2] = main.product[i]

-----------------------------------------------------------------------------
(* Failure isolation in the installer *)

\* C21: a package that cannot be opened as a zip container or that lacks the
\* manifest entry is skipped without any state change, the remaining packages
\* of the session are still processed and the changes are still flushed. As
\* stated: after such a package the in-memory state is as before it and the
\* loop of the session goes on.
C21_Original ==
    (last.op = "install" /\ last.outcome = "raise") =>
        /\ Mem = last.before
        /\ pc = "session"

\* the directories the registry file found at session start accounts for
StartDirs ==
    { start.extensions_file.data[i].relativeLocation :
        i \in 1..Len(start.extensions_file.data) }

\* C22: if extensions.json or .obsolete exists but cannot be parsed at
\* session start the session aborts before any mutation: no session runs, no
\* install is applied, no directory is extracted and neither file is written;
\* a missing file is no error and is read as the empty state.
C22_CorruptAborts ==
    /\ ("corrupt" \in {extensions_file.kind, obsolete_file.kind} =>
          /\ pc = "idle"
          /\ last.op \in {"none", "enter"}
          /\ last.op = "enter" => last.outcome = "raise"
          /\ extensions_file = start.extensions_file
          /\ obsolete_file = start.obsolete_file
          /\ dirs = StartDirs)
    /\ ((last.op = "enter" /\ last.outcome # "raise") =>
          /\ pc = "session"
          /\ start.extensions_file.kind = "absent" => extensions = <<>>
          /\ start.obsolete_file.kind = "absent" => DOMAIN obsolete = {}
          /\ start.extensions_file.kind = "json" => extensions = extensions_file.data
          /\ start.obsolete_file.kind = "json" => obsolete = obsolete_file.data)

\* a session start raised on an unparsable .obsolete next to a registry file
\* that holds an entry
C22_Witness ==
    /\ last.op = "enter"
    /\ last.outcome = "raise"
    /\ obsolete_file.kind = "corrupt"
    /\ extensions_file.kind = "json"
    /\ Len(extensions_file.data) = 1

\* a session started with extensions.json missing and .obsolete present
C22_WitnessAbsent ==
    /\ last.op = "enter"
    /\ last.outcome = ""
    /\ start.extensions_file.kind = "absent"
    /\ start.obsolete_file.kind = "json"

-----------------------------------------------------------------------------
(* Failed downloads *)

\* C23: when a download ends with an HTTP transport error, no cache entry
\* exists at the destination afterwards and that download does not record
\* the destination in the touched-files set. As stated, for the first part:
\* the destination of every download that ended with an HTTP error is absent.
C23_Original ==
    \A t \in DOMAIN futures :
        futures[t].result = "http" => cache[futures[t].file] = "absent"

\* C24: when a distribution download completes but its SHA-256 differs from
\* the expected hash, the file is deleted and is not added to the touched
\* files, so it is neither a cache hit on the next run (a hit is a file that
\* exists) nor in the files main archives; an extension download carries no
\* hash and never ends in a mismatch.
C24_HashMismatch ==
    /\ \A t \in DOMAIN futures :
          /\ futures[t].result = "mismatch" =>
                /\ futures[t].hash
                /\ cache[futures[t].file] = "absent"
                /\ futures[t].file \notin file_log
                /\ futures[t].file \notin main.files
                /\ futures[t].file \notin main.hits
          /\ futures[t].file \in ExtFiles => ~futures[t].hash
    /\ DistFile \in main.hits => Exists(cache, DistFile)

\* the run is over, the distribution download ended in a mismatch and an
\* extension download succeeded
C24_Witness ==
    /\ main.pc = "done"
    /\ \E t, u \in DOMAIN futures :
          /\ futures[t].file = DistFile
          /\ futures[t].result = "mismatch"
          /\ futures[u].file \in ExtFiles
          /\ futures[u].result = "ok"
          /\ futures[u].file \in main.files

-----------------------------------------------------------------------------
(* Interruption of the downloader *)

\* C25: when the run is interrupted while downloads are in flight, the
\* in-flight transfers are abandoned rather than run to completion, downloads
\* that have not started never start, and a cancelled download never triggers
\* the stale-version cleanup. As stated: no transfer that was in flight at
\* the interrupt ends with the file written and logged, and a cancelled
\* future has neither a result nor a callback that cleaned up.
C25_Original ==
    \A t \in DOMAIN futures :
        /\ t \in main.inflight => futures[t].result # "ok"
        /\ futures[t].st = "cancelled" =>
              futures[t].result = "" /\ futures[t].callback = ""

\* the two parts of C25 that hold: a future cancelled in the queue never
\* starts and never cleans up
C25_Cancelled ==
    \A t \in DOMAIN futures :
        futures[t].st = "cancelled" =>
            /\ futures[t].result = ""
            /\ futures[t].callback = ""
            /\ futures[t].dirs = <<>>

\* an interrupt cancelled one download in the queue while another was in
\* flight
C25_Witness ==
    /\ main.inflight # {}
    /\ \E t \in DOMAIN futures : futures[t].st = "cancelled"

-----------------------------------------------------------------------------
(* Concurrent sessions *)

\* every extracted directory has its entry in the registry file
Registered ==
    \A d \in dirs :
        \E i \in 1..Len(extensions_file.data) :
            extensions_file.data[i].relativeLocation = d

\* C26: installs that target the same registry are serialized, so no registry
\* entry or obsolete mark committed by one install is lost or overwritten
\* because of another install, also when two install sessions run at the same
\* time on the same extensions directory. As stated: once no session is
\* running, every install that extracted its directory and committed its
\* entry still has that entry in extensions.json.
C26_Original == (pc = "idle" /\ other.pc # "session") => Registered

-----------------------------------------------------------------------------
(* Extraction *)

\* the last operation was an install whose extraction met an I/O failure on
\* a payload entry
FailedEntry ==
    /\ last.op = "install"
    /\ \E e \in DOMAIN last.io : last.io[e] # "ok"

\* C27: best-effort extraction. An I/O failure on one payload entry does not
\* abort the extraction: every other payload entry is still extracted and
\* the install still commits the registry entry; a missing manifest entry
\* fails the whole package before anything is committed.
C27_Original ==
    /\ FailedEntry =>
          /\ last.extracted = { e \in DOMAIN last.io : last.io[e] = "ok" }
          /\ last.outcome = "commit"
          /\ extensions = Append(last.before.extensions,
                                 Entry(last.vsix.publisher, last.vsix.id, last.vsix.version,
                                       Location(last.vsix.publisher, last.vsix.id,
                                                last.vsix.version)))
    /\ (last.op = "install" /\ last.vsix.zip = "nomanifest") =>
          /\ last.outcome = "raise"
          /\ dirs = last.before.dirs
          /\ extensions = last.before.extensions

\* the part of C27 that holds: failures of the copy itself are caught
C27_CopyCaught ==
    (FailedEntry /\ \A e \in DOMAIN last.io : last.io[e] # "mkdir") =>
        /\ last.extracted = { e \in DOMAIN last.io : last.io[e] = "ok" }
        /\ last.outcome = "commit"
        /\ Len(extensions) = Len(last.before.extensions) + 1

-----------------------------------------------------------------------------
(* Platform aliases *)

\* the distribution files the run has requested, and those of them that
\* download_client and download_server requested
DistMade == { futures[t].file : t \in { u \in DOMAIN futures : futures[u].hash } }
ClientMade == { f \in DistMade : f.dist[1] # "server" }
ServerMade == { f \in DistMade : f.dist[1] = "server" }

\* the extension files the run has requested
ExtMade == { futures[t].file : t \in { u \in DOMAIN futures : ~futures[u].hash } }

-----------------------------------------------------------------------------
(* Coverage of the requested platforms *)

\* C29: platform coverage of a run. For every extension version and every
\* requested platform P for which the marketplace offers a P-specific or a
\* universal variant, a run in which all submitted downloads succeed leaves
\* in the cache an artifact usable on P (the file suffixed @P or the
\* platform-independent file), also when the marketplace offers variants for
\* platforms that were not requested.
C29_Original ==
    (/\ main.pc = "done"
     /\ checked.data.kind = "data"
     /\ \A t \in DOMAIN futures : futures[t].result = "ok") =>
        \A P \in main.platforms :
            (P \in Offered \/ Universal \in Offered) =>
                \/ cache[CheckedFile(P)] = "complete"
                \/ cache[CheckedFile(Universal)] = "complete"

-----------------------------------------------------------------------------
(* The cache as the installer sees it. The downloader copies              *)
(* install-extensions.py to workdir, so extension_cache is                 *)
(* workdir/extensions, the directory download_extensions fills.            *)

\* the path of a stored package below the cache root: <id>/<version>/<file>
StoredPath(f) == <<f.id, f.version, f>>

\* extension_cache.iterdir(): the entries of the cache root itself, which
\* are the directories of the extensions; suffix is Path.suffix of the
\* entry, for a directory <publisher>.<name> the part from the last dot
iterdir(c, vdirs) ==
    { [path |-> <<d[1]>>, suffix |-> "." \o d[1]] : d \in vdirs }

\* install_extensions: the entries its loop passes to install_extension
install_extensions(c, vdirs) ==
    { e \in iterdir(c, vdirs) : e.suffix = ".vsix" }

\* C30: every package file the downloader stores at
\* <cacheRoot>/<identifier>/<version>/<identifier>-<version>[@<platform>].vsix
\* is visited by install_extensions and passed to install_extension when the
\* install script runs next to that cache root.
C30_Original ==
    \A f \in ExtFiles :
        cache[f] = "complete" =>
            \E e \in install_extensions(cache, version_dirs) : e.path = StoredPath(f)

-----------------------------------------------------------------------------
(* Cleanup after a failed download *)

\* a future whose done callback is inside cleanup_old_extension_versions
Cleaning(t) == futures[t].st \in {"dirs", "listing", "files"}

\* C31: cleanup_old_extension_versions deletes a sibling version directory of
\* an identifier only after a download of the new version has succeeded;
\* when the download of the new version fails (HTTP error or any other
\* exception) or is cancelled, the previously cached versions remain. As
\* stated, for the runs that start with version 1 of the first extension
\* cached and version 2 installed: only the callback of a successful
\* download cleans up, and the directory of version 1 is there as long as no
\* download of version 2 has succeeded.
C31_Original ==
    /\ \A t \in DOMAIN futures : Cleaning(t) => futures[t].result = "ok"
    /\ ~Succeeded(1) => Dir(ExtIds[1], "1") \in version_dirs

\* the part of C31 that holds: a cancelled download never cleans up
C31_Cancelled ==
    \A t \in DOMAIN futures :
        futures[t].st = "cancelled" => futures[t].callback = "" /\ ~Cleaning(t)

-----------------------------------------------------------------------------
(* Names of the distribution files *)

\* the CLI archives the run has requested
CliMade == { f \in DistMade : f.dist[1] = "cli" }

\* C32: downloader/installer file-name agreement. For every server platform
\* of the closed platform set, the server archive and the CLI archive that
\* install-server.py reads (DATA_SERVER_TAR, DATA_CLI_TAR) are the
\* destinations download_server and download_cli wrote for that platform
\* under dist/<commit>.
C32_Original ==
    (main.pc = "cli" /\ main.server_platform # ALL) =>
        /\ { f.dest : f \in ServerMade } = {DATA_SERVER_TAR(main.server_platform)}
        /\ { f.dest : f \in CliMade } = {DATA_CLI_TAR(main.server_platform)}

\* the platforms for which C32 holds: all but those of darwin
C32_NotDarwin ==
    (main.pc = "cli" /\ main.server_platform # ALL
        /\ main.server_platform[1] # "darwin") =>
        /\ { f.dest : f \in ServerMade } = {DATA_SERVER_TAR(main.server_platform)}
        /\ { f.dest : f \in CliMade } = {DATA_CLI_TAR(main.server_platform)}

-----------------------------------------------------------------------------
(* Dry run *)

\* C33: dry run. When dry_run is set no function submitted through run_fn
\* is executed, so no download is performed, and no file or directory under
\* the cache or distribution directories is deleted during the run.
C33_Original ==
    /\ \A t \in DOMAIN futures : futures[t].result \in {"", "dry"}
    /\ \A f \in CacheFiles : cache[f] = IF f \in DryFiles THEN "complete" ELSE "absent"
    /\ DryDirs \subseteq version_dirs

\* the parts of C33 that hold: nothing is downloaded and the cache of
\* extensions keeps every file and directory
C33_Extensions ==
    /\ \A t \in DOMAIN futures : futures[t].result \in {"", "dry"}
    /\ \A f \in CacheFiles : cache[f] = IF f \in DryFiles THEN "complete" ELSE "absent"
    /\ Dir(ExtIds[1], "1") \in version_dirs
    /\ file_log = {}

-----------------------------------------------------------------------------
(* Isolation between identifiers *)

\* C34: an install for identifier I never changes the active (non-obsolete)
\* entry of any other identifier J: it appends no entry for J and marks no
\* entry of J obsolete, for all identifier and version strings, the obsolete
\* keys being the lower-cased "<identifier>-<version>".
C34_Original ==
    (last.op = "install" /\ last.outcome \in {"already", "commit"}) =>
        \A J \in Identifiers(extensions) \ {LastId} :
            Active(extensions, obsolete, J)
                = Active(last.before.extensions, last.before.obsolete, J)

-----------------------------------------------------------------------------
(* Extraction confinement *)

\* a file lies inside the destination directory of the package
Confined(path) == path.up = 0 /\ path.down # <<>>

\* C35: every file that extract_vsix creates or overwrites lies inside the
\* destination directory of the package (the manifest or a path below the
\* directory), also for payload entries whose names contain ".." segments.
C35_Original ==
    \A f \in last.files : Confined(f.path)

\* the part that holds: the manifest and the files written from entries
\* whose names have no ".." segment lie inside the destination directory
C35_Plain ==
    \A f \in last.files :
        (\A k \in DOMAIN f.entry : f.entry[k] # "..") => Confined(f.path)

=============================================================================
